---- MODULE Spec2Model ----
(***************************************************************************)
(* Model of the notebook "Geocoding addresses DONE.ipynb": the cells run   *)
(* top to bottom on one thread.  A CSV file of addresses is read with      *)
(* csv.DictReader, each row's address is assembled and sent to the         *)
(* geocoder, the row is enriched and written with csv.DictWriter, and the  *)
(* script sleeps between rows.  Text is modelled as a sequence of          *)
(* one-character strings so that str.strip() and '+' act on characters.    *)
(***************************************************************************)
EXTENDS Integers, Sequences, FiniteSets, TLC

VARIABLES
    inputFile,   \* payday_lenders.csv: [header, lines]; a blank line is <<>>
    inOpen,      \* address_file:  "unopened" | "open" | "closed"
    outOpen,     \* geocoded_file: "unopened" | "open" | "closed"
    pos,         \* csv.reader.line_num: physical lines consumed so far
    fieldnames,  \* DictReader._fieldnames (<<>> until the header is read)
    line_num,    \* input_file.line_num
    row,         \* the loop variable (a dict: column name -> value)
    addr,        \* the assembled query string
    location,    \* the value returned by geolocator.geocode(addr)
    outLines,    \* lines written to payday_geocoded.csv, in order
    console,     \* lines printed, in order
    provLog,     \* history: provider calls and completed pauses, in order
    pc           \* the statement the run is at

vars == << inputFile, inOpen, outOpen, pos, fieldnames, line_num, row, addr,
           location, outLines, console, provLog, pc >>

(* ------------------------------ bounds --------------------------------- *)

\* Longest input file explored, in physical lines after the header line.
MaxLines == 6

\* Most blank lines an explored input file holds.
MaxBlank == 1

\* Longest STADDR / STADDR2 value explored by the address specification.
MaxStrLen == 3

(* --------------------------- program constants ------------------------- *)

\* if input_file.line_num <= 6
LineLimit == 6

\* "Let's get the first five (row 1 is the header)": the row cap.
RowCap == LineLimit - 1

output_fields ==
    << "NAME", "DBA", "STADDR", "STADDR2", "CITY", "STATE", "ZIP",
       "MATCH_ADDR", "LAT_Y", "LONG_X" >>

\* csv.DictWriter(...) default restval=''
restval == << >>

(* ------------------------------ text ----------------------------------- *)

Range(s) == { s[i] : i \in 1..Len(s) }

IsSpace(c) == c = " "

RECURSIVE LStrip(_)
LStrip(s) == IF s # << >> /\ IsSpace(Head(s)) THEN LStrip(Tail(s)) ELSE s

RECURSIVE RStrip(_)
RStrip(s) ==
    IF s # << >> /\ IsSpace(s[Len(s)]) THEN RStrip(SubSeq(s, 1, Len(s) - 1)) ELSE s

\* str.strip(): leading and trailing whitespace removed, the inside untouched.
Strip(s) == RStrip(LStrip(s))

\* (row['STADDR']+' '+row['STADDR2']).strip()
\*     +', '+row['CITY']+', '+row['STATE']+' '+row['ZIP']
AssembleAddr(r) ==
    Strip(r["STADDR"] \o << " " >> \o r["STADDR2"])
        \o << ",", " " >> \o r["CITY"]
        \o << ",", " " >> \o r["STATE"] \o << " " >> \o r["ZIP"]

\* The keys line 164 subscripts; a missing one raises KeyError.
AddrKeys == { "STADDR", "STADDR2", "CITY", "STATE", "ZIP" }

(* --------------------------- csv.DictReader ---------------------------- *)

\* Physical line n of the file (line 1 is the header).
PhysLine(f, n) == IF n = 1 THEN f.header ELSE f.lines[n - 1]

NumPhysLines(f) == 1 + Len(f.lines)

\* dict(zip(self.fieldnames, row)) for a row with as many cells as names.
ZipDict(names, cells) ==
    [ k \in Range(names) |->
        cells[CHOOSE i \in 1..Len(names) : names[i] = k] ]

\* The physical line of the next non-blank row after line p, or 0 if the
\* reader is exhausted (DictReader skips rows equal to []).
NextDataLine(f, p) ==
    IF \E n \in (p + 1)..NumPhysLines(f) : PhysLine(f, n) # << >>
    THEN CHOOSE n \in (p + 1)..NumPhysLines(f) :
            /\ PhysLine(f, n) # << >>
            /\ \A m \in (p + 1)..(n - 1) : PhysLine(f, m) = << >>
    ELSE 0

(* --------------------------- csv.DictWriter ---------------------------- *)

\* DictWriter._dict_to_list: the values in output_fields order, restval for
\* a key the dict lacks.
DictToList(r) ==
    [ i \in 1..Len(output_fields) |->
        IF output_fields[i] \in DOMAIN r THEN r[output_fields[i]] ELSE restval ]

\* extrasaction='raise': keys of the dict that are not fieldnames.
WrongFields(r) == DOMAIN r \ Range(output_fields)

\* row[key] = value
Put(r, k, v) == [ x \in DOMAIN r \cup {k} |-> IF x = k THEN v ELSE r[x] ]

(* ------------------------------ inputs --------------------------------- *)

InputColumns == << "NAME", "DBA", "STADDR", "STADDR2", "CITY", "STATE", "ZIP" >>

\* Header lines of the input files explored: the documented seven columns,
\* a file without DBA, a file with an extra column, a file without STADDR2.
Headers ==
    { InputColumns,
      << "NAME", "STADDR", "STADDR2", "CITY", "STATE", "ZIP" >>,
      InputColumns \o << "PHONE" >>,
      << "NAME", "DBA", "STADDR", "CITY", "STATE", "ZIP" >> }

\* A line's values by column name.
Record(name, dba, staddr, staddr2, city, state, zip, phone) ==
    [ k \in Range(InputColumns) \cup { "PHONE" } |->
        CASE k = "NAME"    -> name
          [] k = "DBA"     -> dba
          [] k = "STADDR"  -> staddr
          [] k = "STADDR2" -> staddr2
          [] k = "CITY"    -> city
          [] k = "STATE"   -> state
          [] k = "ZIP"     -> zip
          [] OTHER         -> phone ]

\* Two lenders: one with an empty STADDR2, one with a suite number.
LenderA ==
    Record(<< "A" >>, << "a" >>, << "8", " ", "P" >>, << >>,
           << "D" >>, << "I" >>, << "6" >>, << "1" >>)

LenderB ==
    Record(<< "B" >>, << "b" >>, << "3", " ", "W" >>, << "S" >>,
           << "A" >>, << "I" >>, << "7" >>, << "2" >>)

\* The cells of a lender's line in a file with the given header.
CellsOf(lender, header) == [ i \in 1..Len(header) |-> lender[header[i]] ]

\* A file layout: per physical line after the header, a blank line or one
\* of the lenders.
LineKinds == { "blank", "A", "B" }

LenderOf(kind) == IF kind = "A" THEN LenderA ELSE LenderB

NumBlank(layout) == Cardinality({ i \in 1..Len(layout) : layout[i] = "blank" })

Layouts ==
    { layout \in UNION { [ 1..n -> LineKinds ] : n \in 0..MaxLines } :
        NumBlank(layout) <= MaxBlank }

FileOf(header, layout) ==
    [ header |-> header,
      lines  |-> [ i \in 1..Len(layout) |->
                     IF layout[i] = "blank" THEN << >>
                     ELSE CellsOf(LenderOf(layout[i]), header) ] ]

InputFiles == { FileOf(h, layout) : h \in Headers, layout \in Layouts }

(* ----------------------------- provider -------------------------------- *)

None == [ kind |-> "None" ]

\* What GoogleV3.geocode can return for a query that matches: a Location
\* with .address, .latitude and .longitude.
Locations ==
    { [ kind |-> "Location", address |-> << "m", "1" >>, latitude |-> 42, longitude |-> 0 - 87 ],
      [ kind |-> "Location", address |-> << "m", "2" >>, latitude |-> 41, longitude |-> 0 - 88 ] }

(* ------------------------------ history -------------------------------- *)

CallEvents == SelectSeq(provLog, LAMBDA e : e.ev = "call")

PauseEvents == SelectSeq(provLog, LAMBDA e : e.ev = "pause")

\* Number of records the reader has returned so far: the non-blank lines
\* among the consumed physical lines after the header.
RecordsRead ==
    Cardinality({ n \in 2..pos : PhysLine(inputFile, n) # << >> })

HeaderLine == [ kind |-> "header", cells |-> output_fields ]

DataRows == SelectSeq(outLines, LAMBDA l : l.kind = "row")

ProgressLines == SelectSeq(console, LAMBDA l : l.kind = "progress")

(* ------------------------------- Init ---------------------------------- *)

Init ==
    /\ inputFile \in InputFiles
    /\ inOpen = "unopened"
    /\ outOpen = "unopened"
    /\ pos = 0
    /\ fieldnames = << >>
    /\ line_num = 0
    /\ row = << >>
    /\ addr = << >>
    /\ location = None
    /\ outLines = << >>
    /\ console = << >>
    /\ provLog = << >>
    /\ pc = "open_input"

(* ------------------------------ actions -------------------------------- *)

\* address_file = open('payday_lenders.csv', 'rb')
\* input_file = csv.DictReader(address_file)
OpenInput ==
    /\ pc = "open_input"
    /\ inOpen' = "open"
    /\ pos' = 0
    /\ line_num' = 0
    /\ fieldnames' = << >>
    /\ pc' = "open_output"
    /\ UNCHANGED << inputFile, outOpen, row, addr, location, outLines, console, provLog >>

\* geocoded_file = open('payday_geocoded.csv', 'wb')
OpenOutput ==
    /\ pc = "open_output"
    /\ outOpen' = "open"
    /\ outLines' = << >>
    /\ pc' = "write_header"
    /\ UNCHANGED << inputFile, inOpen, pos, fieldnames, line_num, row, addr,
                    location, console, provLog >>

\* A run whose header cell had no effect: the writer is made, writeheader()
\* is left out.
WriteHeader_Omitted ==
    /\ pc = "write_header"
    /\ pc' = "for"
    /\ UNCHANGED << inputFile, inOpen, outOpen, pos, fieldnames, line_num, row,
                    addr, location, outLines, console, provLog >>

\* output = csv.DictWriter(geocoded_file, output_fields); output.writeheader()
WriteHeader ==
    /\ pc = "write_header"
    /\ outOpen = "open"
    /\ outLines' = Append(outLines, HeaderLine)
    /\ pc' = "for"
    /\ UNCHANGED << inputFile, inOpen, outOpen, pos, fieldnames, line_num, row,
                    addr, location, console, provLog >>

\* for row in input_file: DictReader.next() returns the next non-blank row
\* as a dict; the first call reads the header line into fieldnames.
ForNextRow ==
    /\ pc = "for"
    /\ LET p == IF line_num = 0 THEN 1 ELSE pos
           n == NextDataLine(inputFile, p)
       IN  /\ n # 0
           /\ fieldnames' = inputFile.header
           /\ pos' = n
           /\ line_num' = n
           /\ row' = ZipDict(inputFile.header, PhysLine(inputFile, n))
    /\ pc' = "if"
    /\ UNCHANGED << inputFile, inOpen, outOpen, addr, location, outLines, console, provLog >>

\* for row in input_file: the reader is exhausted (StopIteration), the loop
\* ends and the run goes on to the closing cell.  line_num keeps the number
\* of the first line this call read, if it read one.
ForExhausted ==
    /\ pc = "for"
    /\ LET p == IF line_num = 0 THEN 1 ELSE pos
       IN  /\ NextDataLine(inputFile, p) = 0
           /\ fieldnames' = inputFile.header
           /\ pos' = NumPhysLines(inputFile)
           /\ line_num' = IF p < NumPhysLines(inputFile) THEN p + 1 ELSE p
    /\ pc' = "close"
    /\ UNCHANGED << inputFile, inOpen, outOpen, row, addr, location, outLines, console, provLog >>

\* The row-cap test off by one: the header line not counted.
WithinLimit_OffByOne(n) == n <= LineLimit + 1

\* The row-cap test of line 162.
WithinLimit(n) == n <= LineLimit

\* if input_file.line_num <= 6:
IfWithinLimit ==
    /\ pc = "if"
    /\ WithinLimit(line_num)
    /\ pc' = "assemble"
    /\ UNCHANGED << inputFile, inOpen, outOpen, pos, fieldnames, line_num, row, addr,
                    location, outLines, console, provLog >>

\* else: print('All done!'); break
ElseAllDone ==
    /\ pc = "if"
    /\ ~WithinLimit(line_num)
    /\ console' = Append(console, [ kind |-> "done" ])
    /\ pc' = "close"
    /\ UNCHANGED << inputFile, inOpen, outOpen, pos, fieldnames, line_num, row, addr,
                    location, outLines, provLog >>

\* addr = (row['STADDR']+' '+row['STADDR2']).strip()+', '+row['CITY']+...
Assemble ==
    /\ pc = "assemble"
    /\ AddrKeys \subseteq DOMAIN row
    /\ addr' = AssembleAddr(row)
    /\ pc' = "geocode"
    /\ UNCHANGED << inputFile, inOpen, outOpen, pos, fieldnames, line_num, row,
                    location, outLines, console, provLog >>

\* Line 164 on a row without one of the address columns: KeyError.
AssembleKeyError ==
    /\ pc = "assemble"
    /\ ~(AddrKeys \subseteq DOMAIN row)
    /\ pc' = "crashed"
    /\ UNCHANGED << inputFile, inOpen, outOpen, pos, fieldnames, line_num, row, addr,
                    location, outLines, console, provLog >>

\* location = geolocator.geocode(addr): the provider returns a Location, or
\* None when nothing matches.
GeocodeReturns ==
    /\ pc = "geocode"
    /\ \E loc \in Locations \cup { None } :
        /\ location' = loc
        /\ provLog' = Append(provLog,
               [ ev |-> "call", query |-> addr, rec |-> RecordsRead, result |-> loc ])
    /\ pc' = "enrich"
    /\ UNCHANGED << inputFile, inOpen, outOpen, pos, fieldnames, line_num, row, addr,
                    outLines, console >>

\* location = geolocator.geocode(addr): the call raises (quota, timeout,
\* transport error); nothing catches it.
GeocodeRaises ==
    /\ pc = "geocode"
    /\ provLog' = Append(provLog,
           [ ev |-> "call", query |-> addr, rec |-> RecordsRead, result |-> [ kind |-> "raised" ] ])
    /\ pc' = "crashed"
    /\ UNCHANGED << inputFile, inOpen, outOpen, pos, fieldnames, line_num, row, addr,
                    location, outLines, console >>

\* The enrichment with latitude and longitude exchanged.
Enrich_Swapped ==
    /\ pc = "enrich"
    /\ location.kind = "Location"
    /\ row' = Put(Put(Put(row, "LAT_Y", location.longitude),
                      "LONG_X", location.latitude),
                  "MATCH_ADDR", location.address)
    /\ pc' = "write"
    /\ UNCHANGED << inputFile, inOpen, outOpen, pos, fieldnames, line_num, addr,
                    location, outLines, console, provLog >>

\* row['LAT_Y'] = location.latitude; row['LONG_X'] = location.longitude
\* row['MATCH_ADDR'] = location.address
Enrich ==
    /\ pc = "enrich"
    /\ location.kind = "Location"
    /\ row' = Put(Put(Put(row, "LAT_Y", location.latitude),
                      "LONG_X", location.longitude),
                  "MATCH_ADDR", location.address)
    /\ pc' = "write"
    /\ UNCHANGED << inputFile, inOpen, outOpen, pos, fieldnames, line_num, addr,
                    location, outLines, console, provLog >>

\* A run that skips a row the provider could not match, going on to the
\* pause and the next row.
EnrichNone_SkipRow ==
    /\ pc = "enrich"
    /\ location.kind = "None"
    /\ pc' = "sleep"
    /\ UNCHANGED << inputFile, inOpen, outOpen, pos, fieldnames, line_num, row, addr,
                    location, outLines, console, provLog >>

\* location.latitude on None: AttributeError, nothing catches it.
EnrichNone ==
    /\ pc = "enrich"
    /\ location.kind = "None"
    /\ pc' = "crashed"
    /\ UNCHANGED << inputFile, inOpen, outOpen, pos, fieldnames, line_num, row, addr,
                    location, outLines, console, provLog >>

\* output.writerow(row)
WriteRow ==
    /\ pc = "write"
    /\ outOpen = "open"
    /\ WrongFields(row) = {}
    /\ outLines' = Append(outLines, [ kind |-> "row", cells |-> DictToList(row) ])
    /\ pc' = "print"
    /\ UNCHANGED << inputFile, inOpen, outOpen, pos, fieldnames, line_num, row, addr,
                    location, console, provLog >>

\* output.writerow(row) on a dict with a key that is not a fieldname:
\* ValueError, raised before anything is written.
WriteRowValueError ==
    /\ pc = "write"
    /\ WrongFields(row) # {}
    /\ pc' = "crashed"
    /\ UNCHANGED << inputFile, inOpen, outOpen, pos, fieldnames, line_num, row, addr,
                    location, outLines, console, provLog >>

\* print('Attempted geocode of {0}, row {1}.'.format(addr, input_file.line_num))
PrintProgress ==
    /\ pc = "print"
    /\ console' = Append(console, [ kind |-> "progress", addr |-> addr, row |-> line_num ])
    /\ pc' = "sleep"
    /\ UNCHANGED << inputFile, inOpen, outOpen, pos, fieldnames, line_num, row, addr,
                    location, outLines, provLog >>

\* time.sleep(2)
Sleep ==
    /\ pc = "sleep"
    /\ provLog' = Append(provLog, [ ev |-> "pause" ])
    /\ pc' = "for"
    /\ UNCHANGED << inputFile, inOpen, outOpen, pos, fieldnames, line_num, row, addr,
                    location, outLines, console >>

\* address_file.close(); geocoded_file.close()
CloseFiles ==
    /\ pc = "close"
    /\ inOpen' = "closed"
    /\ outOpen' = "closed"
    /\ pc' = "done"
    /\ UNCHANGED << inputFile, pos, fieldnames, line_num, row, addr, location,
                    outLines, console, provLog >>

Next ==
    \/ OpenInput
    \/ OpenOutput
    \/ WriteHeader
    \/ ForNextRow
    \/ ForExhausted
    \/ IfWithinLimit
    \/ ElseAllDone
    \/ Assemble
    \/ AssembleKeyError
    \/ GeocodeReturns
    \/ GeocodeRaises
    \/ Enrich
    \/ EnrichNone
    \/ WriteRow
    \/ WriteRowValueError
    \/ PrintProgress
    \/ Sleep
    \/ CloseFiles

Spec == Init /\ [][Next]_vars

(* ------------------- the address specification ------------------------ *)

Alphabet == { " ", "a", "b" }

Texts == UNION { [ 1..n -> Alphabet ] : n \in 0..MaxStrLen }

\* CITY, STATE and ZIP values as read, one of them with spaces around it.
Cities == { << "D" >>, << " ", "D", " " >> }

\* The run at line 164, having read the only row of a one-row file whose
\* STADDR and STADDR2 are any texts over the alphabet.
InitAddr ==
    /\ \E s1 \in Texts, s2 \in Texts, c \in Cities :
         LET lender == Record(<< "A" >>, << "a" >>, s1, s2, c, << "I" >>, << "6" >>, << >>)
         IN  /\ inputFile = [ header |-> InputColumns,
                              lines  |-> << CellsOf(lender, InputColumns) >> ]
             /\ row = ZipDict(InputColumns, CellsOf(lender, InputColumns))
    /\ inOpen = "open"
    /\ outOpen = "open"
    /\ pos = 2
    /\ fieldnames = InputColumns
    /\ line_num = 2
    /\ addr = << >>
    /\ location = None
    /\ outLines = << HeaderLine >>
    /\ console = << >>
    /\ provLog = << >>
    /\ pc = "assemble"

NextAddr == Assemble

SpecAddr == InitAddr /\ [][NextAddr]_vars

(* ------------------------------ claims --------------------------------- *)

Min(a, b) == IF a <= b THEN a ELSE b

\* The data lines of a file, in order: its non-blank lines after the header.
DataLines(f) == SelectSeq(f.lines, LAMBDA l : l # << >>)

NoProviderFailure ==
    \A i \in 1..Len(CallEvents) : CallEvents[i].result.kind = "Location"

Terminated == pc \in { "done", "crashed" }

\* The input file has the seven documented columns.
DocumentedInput == inputFile.header = InputColumns

\* Position of a column in the output line.
ColumnOf(name) == CHOOSE i \in 1..Len(output_fields) : output_fields[i] = name

\* C1: when a run in which no provider call failed has ended, the number of
\* data rows in the output file is min(row cap, number of input data rows).
\* Stated for input files with the seven documented columns.
C1_RowCount ==
    (pc = "done" /\ NoProviderFailure /\ DocumentedInput)
        => Len(DataRows) = Min(RowCap, Len(DataLines(inputFile)))

\* C2: the header, with the ten column names in order, is written exactly
\* once and before any data row: once the header cell has run the first line
\* of the output is the header and no other line is one, and no state has a
\* data row without it.
C2_HeaderOnceFirst ==
    /\ Cardinality({ i \in 1..Len(outLines) : outLines[i].kind = "header" }) <= 1
    /\ Len(DataRows) > 0 => outLines[1].kind = "header"
    /\ pc \notin { "open_input", "open_output", "write_header" }
          => /\ Len(outLines) >= 1
             /\ outLines[1].kind = "header"
             /\ outLines[1].cells = output_fields
             /\ \A i \in 2..Len(outLines) : outLines[i].kind = "row"

\* C2 witness: a finished run that wrote the header and then several rows.
C2_Witness ==
    /\ pc = "done"
    /\ Len(DataRows) >= 2
    /\ outLines[1].kind = "header"

\* C3: a run that ends without an error has printed exactly one completion
\* line, and it is the last line printed.  Stated for input files with the
\* seven documented columns.
C3_OneCompletionLine ==
    (pc = "done" /\ DocumentedInput)
        => /\ Cardinality({ i \in 1..Len(console) : console[i].kind = "done" }) = 1
           /\ console[Len(console)].kind = "done"

\* C4: the provider is called at most row-cap times, and no record after
\* the cap-th is submitted to it or written: every call is for one of the
\* first row-cap records, at most row-cap rows are written, and the loop
\* body never runs on a later record.
C4_CapBoundsProviderUse ==
    /\ Len(CallEvents) <= RowCap
    /\ \A i \in 1..Len(CallEvents) : CallEvents[i].rec <= RowCap
    /\ Len(DataRows) <= RowCap
    /\ pc \in { "assemble", "geocode", "enrich", "write", "print", "sleep" }
          => RecordsRead <= RowCap

\* C4 witness: a finished run that made row-cap calls and read a further
\* record without submitting it.
C4_Witness ==
    /\ pc = "done"
    /\ Len(CallEvents) = RowCap
    /\ RecordsRead > RowCap

\* C5: the pause follows every provider call, failed or not, and no call
\* starts before the pause after the previous call is over: a run that has
\* ended made as many pauses as calls, and calls and pauses alternate.
C5_PauseAfterEveryCall ==
    /\ Terminated => Len(PauseEvents) = Len(CallEvents)
    /\ \A i \in 1..Len(provLog) :
          provLog[i].ev = (IF i % 2 = 1 THEN "call" ELSE "pause")

\* C6: no terminal state of the run, normal or after an error, leaves a
\* file handle open.  Stated for input files with the seven documented
\* columns, where the only error is a provider failure.
C6_HandlesClosed ==
    (Terminated /\ DocumentedInput) => (inOpen # "open" /\ outOpen # "open")

\* C7: when the provider returns no result for a record the run crashes at
\* that record: the step after it is the crash, it writes no row and prints
\* no line, the failed record has neither an output row nor a progress line,
\* and nothing happens after the crash.
C7_CrashAtFailedRecord ==
    [][ /\ pc # "crashed"
        /\ (pc = "enrich" /\ location.kind = "None")
              => /\ pc' = "crashed"
                 /\ outLines' = outLines
                 /\ console' = console
                 /\ provLog' = provLog
                 /\ Len(DataRows') = Len(CallEvents') - 1
                 /\ Len(ProgressLines') = Len(CallEvents') - 1 ]_vars

\* C7 witness: the run crashed on a record the provider had no result for,
\* after earlier records were written.
C7_Witness ==
    /\ pc = "crashed"
    /\ Len(CallEvents) >= 2
    /\ CallEvents[Len(CallEvents)].result.kind = "None"
    /\ Len(DataRows) = Len(CallEvents) - 1

Contains(s, t) ==
    \E i \in 0..(Len(s) - Len(t)) : SubSeq(s, i + 1, i + Len(t)) = t

HasText(s) == \E i \in 1..Len(s) : ~IsSpace(s[i])

\* C8: for a row whose STADDR2 is not empty the query is a street portion
\* followed by ', CITY, STATE ZIP' verbatim; the street portion has no
\* leading or trailing whitespace and holds STADDR and STADDR2 separated by
\* exactly one space (the values as given, or the values without the spaces
\* around them).  Stated for values that hold a character other than a space.
C8_StreetPortion ==
    (pc = "geocode" /\ HasText(row["STADDR"]) /\ HasText(row["STADDR2"]))
        => LET tail == << ",", " " >> \o row["CITY"] \o << ",", " " >>
                           \o row["STATE"] \o << " " >> \o row["ZIP"]
               n == Len(addr) - Len(tail)
               street == SubSeq(addr, 1, n)
           IN  /\ n >= 0
               /\ SubSeq(addr, n + 1, Len(addr)) = tail
               /\ street = Strip(street)
               /\ \/ Contains(street, row["STADDR"] \o << " " >> \o row["STADDR2"])
                  \/ Contains(street, Strip(row["STADDR"]) \o << " " >> \o Strip(row["STADDR2"]))

\* C9: a row handed to the write step with a key outside the ten output
\* columns, or without one of them, makes the write step fail and no line
\* is written.
C9_WriteNeedsExactKeys ==
    [][ (pc = "write" /\ DOMAIN row # Range(output_fields))
            => (pc' = "crashed" /\ outLines' = outLines) ]_vars

MatchAddrColumn == ColumnOf("MATCH_ADDR")

LatColumn == ColumnOf("LAT_Y")

LongColumn == ColumnOf("LONG_X")

\* C10: the data rows of the output are, in order, the first k records of
\* the input: row k carries record k's values in the seven input columns (of
\* those the input file has) and the address, latitude and longitude the
\* provider returned for record k.
C10_OutputIsPrefix ==
    LET data  == DataLines(inputFile)
        names == inputFile.header
        rows  == DataRows
        calls == CallEvents
    IN  /\ Len(rows) <= Len(data)
        /\ Len(rows) <= Len(calls)
        /\ \A k \in 1..Len(rows) :
              LET cells  == rows[k].cells
                  result == calls[k].result
              IN  /\ \A j \in 1..Len(names) :
                        names[j] \in Range(InputColumns)
                            => cells[ColumnOf(names[j])] = data[k][j]
                  /\ calls[k].rec = k
                  /\ result.kind = "Location"
                  /\ cells[MatchAddrColumn] = result.address
                  /\ cells[LatColumn] = result.latitude
                  /\ cells[LongColumn] = result.longitude

\* C10 witness: three rows written, for different lenders and with
\* different provider results.
C10_Witness ==
    /\ Len(DataRows) >= 3
    /\ DataRows[1].cells[ColumnOf("NAME")] # DataRows[2].cells[ColumnOf("NAME")]
    /\ DataRows[2].cells[ColumnOf("LAT_Y")] # DataRows[3].cells[ColumnOf("LAT_Y")]

====
